---- MODULE Spec2Model ----
(***************************************************************************)
(* Model of TASK3.py: the password generator generate_password and the     *)
(* Tk button handler on_generate_button_click that calls it.               *)
(*                                                                         *)
(* Text (passwords, the content of entry widgets) is a sequence of         *)
(* one-character strings.  The random source is an oracle: every           *)
(* random.choice and every draw of random.shuffle is an input of the       *)
(* call, chosen nondeterministically.                                      *)
(***************************************************************************)
EXTENDS Integers, Sequences, FiniteSets, TLC

\* ---------------------------------------------------------------- bounds
\* Number of characters kept of each character class (string.ascii_uppercase
\* has 26, string.digits 10, string.punctuation 32).
AlphaLen == 1
\* Largest length passed to generate_password.
MaxLen == 5

\* ------------------------------------------------------------- constants
MIN_PASS_LENGTH == 4
MAX_PASS_LENGTH == 80

Min(a, b) == IF a < b THEN a ELSE b
Range(s) == {s[i] : i \in DOMAIN s}

\* string.ascii_uppercase, string.ascii_lowercase, string.digits,
\* string.punctuation.  The grave accent (the 28th punctuation character) cannot
\* be written in a TLA+ string and is spelled "grave".
ascii_uppercase ==
  <<"A","B","C","D","E","F","G","H","I","J","K","L","M",
    "N","O","P","Q","R","S","T","U","V","W","X","Y","Z">>
ascii_lowercase ==
  <<"a","b","c","d","e","f","g","h","i","j","k","l","m",
    "n","o","p","q","r","s","t","u","v","w","x","y","z">>
digits == <<"0","1","2","3","4","5","6","7","8","9">>
punctuation ==
  <<"!","\"","#","$","%","&","'","(",")","*","+",",","-",".","/",":",
    ";","<","=",">","?","@","[","\\","]","^","_","grave","{","|","}","~">>

\* The first AlphaLen characters of an alphabet.
Prefix(s) == SubSeq(s, 1, Min(AlphaLen, Len(s)))

CHAR_SETS ==
  [uppercase     |-> Prefix(ascii_uppercase),
   lowercase     |-> Prefix(ascii_lowercase),
   digits        |-> Prefix(digits),
   special_chars |-> Prefix(punctuation)]

Strengths == {"low", "medium", "high"}

\* The lengths passed to generate_password.
Lengths == (0 - 2)..MaxLen

\* The text returned at line 66.
ERROR_TOO_SHORT ==
  <<"E","r","r","o","r",":"," ","L","e","n","g","t","h"," ","t","o","o"," ",
    "s","h","o","r","t"," ","f","o","r"," ","s","e","l","e","c","t","e","d",
    " ","s","t","r","e","n","g","t","h",".">>

\* ------------------------------------------------------ generate_password
\* Variant: the medium tier also extends all_chars with the punctuation.
all_chars_medium_special(strength) ==
  CHAR_SETS.uppercase \o CHAR_SETS.lowercase
    \o (IF strength \in {"medium", "high"} THEN CHAR_SETS.digits ELSE <<>>)
    \o (IF strength \in {"medium", "high"} THEN CHAR_SETS.special_chars ELSE <<>>)

\* all_chars as built at lines 35-54.
all_chars(strength) ==
  CHAR_SETS.uppercase \o CHAR_SETS.lowercase
    \o (IF strength \in {"medium", "high"} THEN CHAR_SETS.digits ELSE <<>>)
    \o (IF strength = "high" THEN CHAR_SETS.special_chars ELSE <<>>)

\* Variant: the medium tier appends no guaranteed digit.
guaranteed_classes_medium_no_digit(strength) ==
  CASE strength = "medium" -> <<"uppercase", "lowercase">>
    [] strength = "high"   -> <<"uppercase", "lowercase", "digits", "special_chars">>
    [] OTHER               -> <<>>

\* Variant: the high tier appends no guaranteed punctuation character.
guaranteed_classes_high_no_special(strength) ==
  CASE strength = "medium" -> <<"uppercase", "lowercase", "digits">>
    [] strength = "high"   -> <<"uppercase", "lowercase", "digits">>
    [] OTHER               -> <<>>

\* The classes a character is drawn from for guaranteed_chars, in the order
\* of the appends at lines 48-50 and 56-59.
guaranteed_classes(strength) ==
  CASE strength = "medium" -> <<"uppercase", "lowercase", "digits">>
    [] strength = "high"   -> <<"uppercase", "lowercase", "digits", "special_chars">>
    [] OTHER               -> <<>>

\* Variant: the filler count is one too many.
remaining_length_one_more(length, strength) ==
  LET r == length - Len(guaranteed_classes(strength)) + 1
  IN  IF r < 0 THEN 0 ELSE r

\* remaining_length, lines 69-70.
remaining_length(length, strength) ==
  LET r == length - Len(guaranteed_classes(strength))
  IN  IF r < 0 THEN 0 ELSE r

Swap(x, a, b) == [x EXCEPT ![a] = x[b], ![b] = x[a]]

\* random.shuffle(x): for k from the last position down to the second, swap
\* x[k] with x[j[k]], j[k] drawn from 1..k.  after[i] is the list after i swaps.
shuffle(x, j) ==
  LET n == Len(x)
      after[i \in 0..n] ==
        IF i = 0 THEN x ELSE Swap(after[i - 1], n - i + 1, j[n - i + 1])
  IN  IF n < 2 THEN x ELSE after[n - 1]

\* The draws random.shuffle makes on a list of n elements.
ShuffleDraws(n) == {j \in [2..n -> 1..n] : \A k \in 2..n : j[k] <= k}

\* The draws one call can consume, rnd = [g, f, j]: g[i] indexes the i-th
\* guaranteed class, f[i] indexes all_chars for the i-th filler character, j
\* drives the shuffle.  A call that returns at line 66 consumes g only.
GuaranteedDraws(strength) ==
  LET gc == guaranteed_classes(strength)
  IN  {g \in [1..Len(gc) -> 1..AlphaLen] :
         \A i \in 1..Len(gc) : g[i] <= Len(CHAR_SETS[gc[i]])}

FillerDraws(length, strength) ==
  IF Len(guaranteed_classes(strength)) > length
  THEN {<<>>}
  ELSE [1..remaining_length(length, strength) -> 1..Len(all_chars(strength))]

ShuffleDrawsOf(length, strength) ==
  IF Len(guaranteed_classes(strength)) > length
  THEN {<<>>}
  ELSE ShuffleDraws(Len(guaranteed_classes(strength))
                      + remaining_length(length, strength))

\* guaranteed_chars, lines 36-59.
guaranteed_chars(strength, rnd) ==
  LET gc == guaranteed_classes(strength)
  IN  [i \in 1..Len(gc) |-> CHAR_SETS[gc[i]][rnd.g[i]]]

\* random_chars, line 72.
random_chars(length, strength, rnd) ==
  [i \in 1..remaining_length(length, strength) |-> all_chars(strength)[rnd.f[i]]]

\* final_password_list before the shuffle, line 75.
final_password_list(length, strength, rnd) ==
  guaranteed_chars(strength, rnd) \o random_chars(length, strength, rnd)

\* Variant: a length that is too short yields min(length, len(guaranteed_chars))
\* guaranteed characters instead of the failure text.
generate_password_truncating(length, strength, rnd) ==
  IF Len(guaranteed_chars(strength, rnd)) > length
  THEN SubSeq(guaranteed_chars(strength, rnd), 1, length)
  ELSE shuffle(final_password_list(length, strength, rnd), rnd.j)

\* Variant: a negative length yields the empty password.
generate_password_negative_empty(length, strength, rnd) ==
  IF length < 0
  THEN <<>>
  ELSE IF Len(guaranteed_chars(strength, rnd)) > length
       THEN ERROR_TOO_SHORT
       ELSE shuffle(final_password_list(length, strength, rnd), rnd.j)

\* The value generate_password(length, strength) returns under the draws rnd.
generate_password(length, strength, rnd) ==
  IF Len(guaranteed_chars(strength, rnd)) > length
  THEN ERROR_TOO_SHORT
  ELSE shuffle(final_password_list(length, strength, rnd), rnd.j)

\* Every value generate_password(length, strength) can return, tabulated for
\* the lengths and strengths explored.
OutcomeTable ==
  {<<l, s, {generate_password(l, s, [g |-> g, f |-> f, j |-> j]) :
              g \in GuaranteedDraws(s),
              f \in FillerDraws(l, s),
              j \in ShuffleDrawsOf(l, s)}>> :
     l \in Lengths, s \in Strengths}

Outcomes(l, s) == (CHOOSE t \in OutcomeTable : t[1] = l /\ t[2] = s)[3]

\* The number of calls into the random source one call makes: the
\* random.choice calls of lines 48-59 come before the length test of line 65.
random_calls(length, strength) ==
  LET ng == Len(guaranteed_classes(strength))
  IN  IF ng > length
      THEN ng
      ELSE LET n == ng + remaining_length(length, strength)
           IN  ng + remaining_length(length, strength) + (IF n < 2 THEN 0 ELSE n - 1)

\* ------------------------------------------------------------ Tk widgets
\* ttk.Entry: config(state=...), delete(0, END) and insert(0, text).  An entry
\* that is not in the "normal" state ignores delete and insert.
entry_config(entry, state) == [entry EXCEPT !.state = state]
entry_delete_all(entry) ==
  IF entry.state = "normal" THEN [entry EXCEPT !.text = <<>>] ELSE entry
entry_insert_front(entry, text) ==
  IF entry.state = "normal" THEN [entry EXCEPT !.text = text \o @] ELSE entry

\* int(text): surrounding blanks are stripped, then an optional sign and one or
\* more decimal digits; anything else raises ValueError.
RECURSIVE lstrip(_)
lstrip(t) == IF t /= <<>> /\ Head(t) = " " THEN lstrip(Tail(t)) ELSE t

RECURSIVE rstrip(_)
rstrip(t) ==
  IF t /= <<>> /\ t[Len(t)] = " " THEN rstrip(SubSeq(t, 1, Len(t) - 1)) ELSE t

DigitValue(c) == CHOOSE d \in 0..9 : digits[d + 1] = c

RECURSIVE DecimalValue(_)
DecimalValue(t) ==
  IF t = <<>> THEN 0
  ELSE 10 * DecimalValue(SubSeq(t, 1, Len(t) - 1)) + DigitValue(t[Len(t)])

int(text) ==
  LET s      == rstrip(lstrip(text))
      signed == s /= <<>> /\ Head(s) \in {"+", "-"}
      body   == IF signed THEN Tail(s) ELSE s
  IN  IF body = <<>> \/ \E i \in 1..Len(body) : body[i] \notin Range(digits)
      THEN [ok |-> FALSE, value |-> 0]
      ELSE [ok |-> TRUE,
            value |-> IF Head(s) = "-" THEN 0 - DecimalValue(body)
                      ELSE DecimalValue(body)]

\* str(n) for n >= 0.
RECURSIVE str(_)
str(n) ==
  IF n < 10 THEN <<digits[n + 1]>> ELSE str(n \div 10) \o <<digits[(n % 10) + 1]>>

\* ---------------------------------------------- on_generate_button_click
\* Variant: the range test has no lower limit.
length_in_policy_no_minimum(length) == length <= MAX_PASS_LENGTH

\* The range test of line 162.
length_in_policy(length) ==
  MIN_PASS_LENGTH <= length /\ length <= MAX_PASS_LENGTH

\* Variant: the previous password is not deleted.
show_password_no_delete(entry, new_password) ==
  entry_config(
    entry_insert_front(entry_config(entry, "normal"), new_password),
    "readonly")

\* Lines 167-174: the output field after an accepted click.
show_password(entry, new_password) ==
  entry_config(
    entry_insert_front(entry_delete_all(entry_config(entry, "normal")),
                       new_password),
    "readonly")

\* Variant: the field is cleared before the range test.
output_after_click_clear_first(entry, text, new_password) ==
  LET parsed == int(text)
  IN  IF ~parsed.ok THEN entry
      ELSE IF ~(MIN_PASS_LENGTH <= parsed.value /\ parsed.value <= MAX_PASS_LENGTH)
           THEN entry_delete_all(entry_config(entry, "normal"))
      ELSE entry_config(
             entry_insert_front(entry_delete_all(entry_config(entry, "normal")),
                                new_password),
             "readonly")

\* The output field when the handler returns: a ValueError of line 159 and a
\* length outside the policy (lines 162-164) leave the handler before line 167.
\* new_password is the value generate_password returns at line 170.
output_after_click(entry, text, new_password) ==
  LET parsed == int(text)
  IN  IF ~parsed.ok THEN entry
      ELSE IF ~length_in_policy(parsed.value) THEN entry
      ELSE show_password(entry, new_password)

\* The message box the handler raises.
dialog_after_click(text) ==
  LET parsed == int(text)
  IN  IF ~parsed.ok THEN "warning: not a number"
      ELSE IF ~length_in_policy(parsed.value) THEN "warning: out of range"
      ELSE "none"

\* ------------------------------------------------------------------ state
VARIABLES
  argLength,            \* argument of the direct calls of generate_password
  argStrength,             \* argument of the direct calls of generate_password
  calls,                \* number of direct calls made
  result,               \* value the last direct call returned
  prevResult,           \* value the direct call before it returned
  rngCalls,             \* calls into the random source made by the direct calls
  length_entry,         \* text of the length entry
  strength_var,         \* selected radio button
  generated_pass_entry, \* output entry: [text, state]
  shown,                \* message box raised by the last click
  lastCall              \* the handler's last call of generate_password

vars == <<argLength, argStrength, calls, result, prevResult, rngCalls,
          length_entry, strength_var, generated_pass_entry, shown, lastCall>>

callVars == <<argLength, argStrength, calls, result, prevResult, rngCalls>>
uiVars   == <<length_entry, strength_var, generated_pass_entry, shown, lastCall>>

\* What the user can type into the length entry.
LengthTexts ==
  {str(n) : n \in (MIN_PASS_LENGTH - 1)..MaxLen}
    \cup {<<"1","2">>, <<"8","1">>, <<>>, <<"a","b","c">>}

NoCall == [made |-> FALSE, length |-> 0, returned |-> <<>>, replacedLen |-> 0]

\* setup_ui_elements: the widgets as constructed.
InitUI ==
  /\ length_entry = <<"1","2">>
  /\ strength_var = "high"
  /\ generated_pass_entry = [text |-> <<>>, state |-> "readonly"]
  /\ shown = "none"
  /\ lastCall = NoCall

InitCall ==
  /\ calls = 0
  /\ result = <<>>
  /\ prevResult = <<>>
  /\ rngCalls = 0

\* Direct calls: the inputs are drawn once, the UI is idle.
Init ==
  /\ argLength \in Lengths
  /\ argStrength \in Strengths
  /\ InitCall
  /\ InitUI

\* One call generate_password(argLength, argStrength).
GeneratePassword ==
  /\ \E g \in GuaranteedDraws(argStrength),
        f \in FillerDraws(argLength, argStrength),
        j \in ShuffleDrawsOf(argLength, argStrength) :
       result' = generate_password(argLength, argStrength,
                                   [g |-> g, f |-> f, j |-> j])
  /\ prevResult' = result
  /\ calls' = calls + 1
  /\ rngCalls' = rngCalls + random_calls(argLength, argStrength)
  /\ UNCHANGED <<argLength, argStrength>>
  /\ UNCHANGED uiVars

\* One call.
Next == calls < 1 /\ GeneratePassword

Spec == Init /\ [][Next]_vars

\* Two calls with the same inputs.
NextPair == calls < 2 /\ GeneratePassword

SpecPair == Init /\ [][NextPair]_vars

\* The application: no direct calls, the user edits the form and clicks.
InitApp ==
  /\ argLength = 0
  /\ argStrength = "low"
  /\ InitCall
  /\ InitUI

TypeLength ==
  /\ \E text \in LengthTexts : length_entry' = text
  /\ UNCHANGED <<strength_var, generated_pass_entry, shown, lastCall>>
  /\ UNCHANGED callVars

SelectStrength ==
  /\ \E s \in Strengths : strength_var' = s
  /\ UNCHANGED <<length_entry, generated_pass_entry, shown, lastCall>>
  /\ UNCHANGED callVars

\* The handler of the FORGE PASSWORD button, lines 156-179.  Accepted lengths
\* above MaxLen are not explored.
on_generate_button_click ==
  LET parsed   == int(length_entry)
      accepted == parsed.ok /\ length_in_policy(parsed.value)
  IN  /\ accepted => parsed.value <= MaxLen
      /\ \E new_password \in (IF accepted
                              THEN Outcomes(parsed.value, strength_var)
                              ELSE {<<>>}) :
           /\ generated_pass_entry' =
                output_after_click(generated_pass_entry, length_entry,
                                   new_password)
           /\ lastCall' =
                IF accepted
                THEN [made |-> TRUE, length |-> parsed.value,
                      returned |-> new_password,
                      replacedLen |-> Len(generated_pass_entry.text)]
                ELSE lastCall
      /\ shown' = dialog_after_click(length_entry)
      /\ UNCHANGED <<length_entry, strength_var>>
      /\ UNCHANGED callVars

NextApp == TypeLength \/ SelectStrength \/ on_generate_button_click

SpecApp == InitApp /\ [][NextApp]_vars

\* ------------------------------------------------- vocabulary of the claims
Classes == {"uppercase", "lowercase", "digits", "special_chars"}

\* The whole alphabet of a character class.
ClassAlphabet(c) ==
  CASE c = "uppercase"     -> Range(ascii_uppercase)
    [] c = "lowercase"     -> Range(ascii_lowercase)
    [] c = "digits"        -> Range(digits)
    [] c = "special_chars" -> Range(punctuation)

\* The classes of which a password of the tier must hold a character.
RequiredClasses(tier) ==
  CASE tier = "low"    -> {}
    [] tier = "medium" -> {"uppercase", "lowercase", "digits"}
    [] tier = "high"   -> Classes

\* The classes a password of the tier may draw from.
UniverseClasses(tier) ==
  CASE tier = "low"    -> {"uppercase", "lowercase"}
    [] tier = "medium" -> {"uppercase", "lowercase", "digits"}
    [] tier = "high"   -> Classes

Universe(tier) == UNION {ClassAlphabet(c) : c \in UniverseClasses(tier)}

\* The classes that occur in a text.
Coverage(text) == {c \in Classes : \E i \in 1..Len(text) : text[i] \in ClassAlphabet(c)}

\* The outcome a returned value stands for: the code has the one failure text.
Outcome(value) == IF value = ERROR_TOO_SHORT THEN "InsufficientLength" ELSE "password"

Called == calls >= 1

\* ----------------------------------------------------------------- claims
\* C1: for every tier and every length >= the tier's number of guaranteed
\* classes, generate_password returns a password of exactly `length`
\* characters; generate_password(0, "low") returns the empty string.
C1_ExactLength ==
  (Called /\ argLength >= Cardinality(RequiredClasses(argStrength)))
    => /\ Outcome(result) = "password"
       /\ Len(result) = argLength

C1_Witness ==
  /\ Called
  /\ argStrength = "high"
  /\ argLength = MaxLen
  /\ Outcome(result) = "password"
  /\ Len(result) = MaxLen

\* C2: every password returned holds at least one character of each
\* guaranteed class of the tier, whatever the draws and the shuffle.
C2_GuaranteedClassesPresent ==
  (Called /\ Outcome(result) = "password")
    => RequiredClasses(argStrength) \subseteq Coverage(result)

\* A medium password whose first character is a digit: the shuffle moved the
\* guaranteed digit or a filler digit to the front.
C2_Witness ==
  /\ Called
  /\ argStrength = "medium"
  /\ argLength = MaxLen
  /\ Outcome(result) = "password"
  /\ result[1] \in ClassAlphabet("digits")
  /\ RequiredClasses("medium") \subseteq Coverage(result)

C5_NoDrawBeforeFailure ==
  (Called /\ Outcome(result) = "InsufficientLength") => rngCalls = 0

C7_SameLengthAndCoverage ==
  (calls = 2 /\ Outcome(result) = "password" /\ Outcome(prevResult) = "password")
    => /\ Len(result) = Len(prevResult)
       /\ Coverage(result) = Coverage(prevResult)

\* C7 (amended): two successful calls with the same inputs return values of
\* the same length for every tier, and of the same class coverage at the
\* medium and high tiers.
C7_SameLengthAndCoverageAboveLow ==
  (calls = 2 /\ Outcome(result) = "password" /\ Outcome(prevResult) = "password")
    => /\ Len(result) = Len(prevResult)
       /\ argStrength /= "low" => Coverage(result) = Coverage(prevResult)

\* Two medium passwords of different content.
C7_Witness ==
  /\ calls = 2
  /\ argStrength = "medium"
  /\ argLength = MaxLen
  /\ Outcome(result) = "password"
  /\ Outcome(prevResult) = "password"
  /\ result /= prevResult
  /\ Coverage(result) = Coverage(prevResult)

\* The length entry does not hold a number of 4..80.
Rejected ==
  LET parsed == int(length_entry)
  IN  \/ ~parsed.ok
      \/ parsed.value < MIN_PASS_LENGTH
      \/ parsed.value > MAX_PASS_LENGTH

\* C8: a click on a length entry that is not a number or is outside 4..80
\* raises a warning, makes no call of generate_password and leaves the output
\* field as it was: same content, still read-only.
C8_RejectedClickKeepsOutput ==
  [][(Rejected /\ on_generate_button_click)
       => /\ shown' \in {"warning: not a number", "warning: out of range"}
          /\ lastCall' = lastCall
          /\ generated_pass_entry' = generated_pass_entry
          /\ generated_pass_entry'.state = "readonly"]_vars

\* An out-of-range click on a form that shows a password.
C8_Witness ==
  /\ shown = "warning: out of range"
  /\ Rejected
  /\ lastCall.made
  /\ generated_pass_entry.text = lastCall.returned
  /\ Len(generated_pass_entry.text) >= MIN_PASS_LENGTH

\* C9: in every state reachable through the button handler the output field
\* never holds the failure text.
C9_OutputNeverFailureText ==
  /\ generated_pass_entry.text /= ERROR_TOO_SHORT
  /\ lastCall.made => Outcome(lastCall.returned) = "password"

\* An accepted click at the shortest accepted length and the high tier.
C9_Witness ==
  /\ lastCall.made
  /\ lastCall.length = MIN_PASS_LENGTH
  /\ generated_pass_entry.text = lastCall.returned
  /\ Coverage(generated_pass_entry.text) = Classes

\* C10: when a handler has returned the output field is read-only and holds
\* nothing before the first accepted click, and after it exactly the value
\* generate_password returned to the most recent accepted click, of as many
\* characters as that click's length.
C10_OutputIsLastPassword ==
  /\ generated_pass_entry.state = "readonly"
  /\ IF lastCall.made
     THEN /\ generated_pass_entry.text = lastCall.returned
          /\ Len(generated_pass_entry.text) = lastCall.length
     ELSE generated_pass_entry.text = <<>>

\* A shorter password has replaced a longer one.
C10_Witness ==
  /\ lastCall.made
  /\ lastCall.replacedLen = MaxLen
  /\ lastCall.length = MIN_PASS_LENGTH
  /\ Len(generated_pass_entry.text) = MIN_PASS_LENGTH
  /\ generated_pass_entry.state = "readonly"

====
